---- MODULE Spec2Model ----
(***************************************************************************)
(* A model of barty777/simple_neural_net: the numerical engine of          *)
(* src/simple_net.py (forward_pass, log_loss, backprop, update_weights,    *)
(* main) and the optimizers of src/optimizers.py (GradientDescent,         *)
(* RMSProp).                                                               *)
(*                                                                         *)
(* Numbers.  numpy's float64 values are modelled as fixed-point numbers:   *)
(* the integer n stands for n / SCALE, and every product, quotient and     *)
(* square root is rounded (towards zero) to a multiple of 1 / SCALE, the   *)
(* way a float operation is rounded to a representable value.              *)
(*                                                                         *)
(* Tensors.  Every ndarray of the program is two-dimensional; a tensor is  *)
(* a sequence of rows, each a sequence of numbers.  A Python scalar is the *)
(* 1 x 1 tensor (numpy broadcasts both the same way).  An operation that   *)
(* raises ValueError yields ERR.                                           *)
(***************************************************************************)
EXTENDS Integers, Sequences, FiniteSets, TLC

\* ------------------------------------------------------------------ numbers

\* The fixed-point unit: n stands for n / SCALE.
SCALE == 10 * 10

Abs(n) == IF n >= 0 THEN n ELSE -n

\* n / d rounded towards zero, d > 0.
Quot(n, d) == IF n >= 0 THEN n \div d ELSE -((-n) \div d)

\* a * b of two fixed-point numbers.
FMul(a, b) == Quot(a * b, SCALE)

\* a / b of two fixed-point numbers, b # 0.
FDiv(a, b) == IF b > 0 THEN Quot(a * SCALE, b) ELSE Quot(-(a * SCALE), -b)

RECURSIVE ISqrtBetween(_, _, _)
\* The largest k in lo..hi-1 with k * k <= x, given lo * lo <= x < hi * hi.
ISqrtBetween(x, lo, hi) ==
    IF hi - lo <= 1 THEN lo
    ELSE LET mid == (lo + hi) \div 2
         IN  IF mid * mid <= x THEN ISqrtBetween(x, mid, hi)
                               ELSE ISqrtBetween(x, lo, mid)

\* np.sqrt of a fixed-point number a >= 0: sqrt(a / SCALE) = sqrt(a * SCALE) / SCALE.
FSqrt(a) == ISqrtBetween(a * SCALE, 0, a * SCALE + 1)

\* np.square of a fixed-point number.
FSquare(a) == FMul(a, a)

\* np.exp: the second-order expansion 1 + x + x^2/2 for x >= 0 and its
\* reciprocal for x < 0, so that the value is positive and increasing in x.
FExpPos(a) == SCALE + a + Quot(FMul(a, a), 2)
FExp(a) == IF a >= 0 THEN FExpPos(a) ELSE FDiv(SCALE, FExpPos(-a))

\* np.log of a fixed-point number a > 0: 2 * (z + z^3 / 3) with z = (a - 1) / (a + 1).
FLog(a) ==
    LET z == FDiv(a - SCALE, a + SCALE)
    IN  2 * (z + Quot(FMul(z, FMul(z, z)), 3))

\* ------------------------------------------------------------------ tensors

ERR == << >>

IsErr(m) == Len(m) = 0

Rows(m) == Len(m)
Cols(m) == Len(m[1])
Shape(m) == <<Rows(m), Cols(m)>>

Max2(a, b) == IF a >= b THEN a ELSE b

\* A Python scalar as a tensor.
Scalar(v) == << <<v>> >>

\* The entry numpy reads at (i, j) of m when m is broadcast to a larger shape.
At(m, i, j) == m[IF Rows(m) = 1 THEN 1 ELSE i][IF Cols(m) = 1 THEN 1 ELSE j]

\* numpy's broadcasting rule for two 2-D shapes: each axis equal, or one of them 1.
Broadcastable(a, b) ==
    /\ (Rows(a) = Rows(b) \/ Rows(a) = 1 \/ Rows(b) = 1)
    /\ (Cols(a) = Cols(b) \/ Cols(a) = 1 \/ Cols(b) = 1)

\* Whether an element-wise binary operation on a and b yields an array.
Fits(a, b) == ~IsErr(a) /\ ~IsErr(b) /\ Broadcastable(a, b)

\* The shape of the result of an element-wise binary operation.
BRows(a, b) == Max2(Rows(a), Rows(b))
BCols(a, b) == Max2(Cols(a), Cols(b))

\* In the arrays below, `\o << >>` makes TLC compute the entries once, when
\* the array is built.

\* a - b, a + b, np.multiply(a, b), a / b: element-wise with broadcasting.
MSub(a, b) ==
    IF ~Fits(a, b) THEN ERR
    ELSE [i \in 1..BRows(a, b) |->
             [j \in 1..BCols(a, b) |-> At(a, i, j) - At(b, i, j)] \o << >>] \o << >>
MAdd(a, b) ==
    IF ~Fits(a, b) THEN ERR
    ELSE [i \in 1..BRows(a, b) |->
             [j \in 1..BCols(a, b) |-> At(a, i, j) + At(b, i, j)] \o << >>] \o << >>
MMul(a, b) ==
    IF ~Fits(a, b) THEN ERR
    ELSE [i \in 1..BRows(a, b) |->
             [j \in 1..BCols(a, b) |-> FMul(At(a, i, j), At(b, i, j))] \o << >>] \o << >>
MDiv(a, b) ==
    IF ~Fits(a, b) THEN ERR
    ELSE [i \in 1..BRows(a, b) |->
             [j \in 1..BCols(a, b) |-> FDiv(At(a, i, j), At(b, i, j))] \o << >>] \o << >>

\* scalar * a
MScale(s, a) ==
    IF IsErr(a) THEN ERR
    ELSE [i \in 1..Rows(a) |-> [j \in 1..Cols(a) |-> FMul(s, a[i][j])] \o << >>] \o << >>

\* a / n for a Python int n > 0
MOverInt(a, n) ==
    IF IsErr(a) THEN ERR
    ELSE [i \in 1..Rows(a) |-> [j \in 1..Cols(a) |-> Quot(a[i][j], n)] \o << >>] \o << >>

\* 1 - a
MOneMinus(a) ==
    IF IsErr(a) THEN ERR
    ELSE [i \in 1..Rows(a) |-> [j \in 1..Cols(a) |-> SCALE - a[i][j]] \o << >>] \o << >>

\* np.square(a), np.sqrt(a), np.exp(a), np.log(a)
MSquare(a) ==
    IF IsErr(a) THEN ERR
    ELSE [i \in 1..Rows(a) |-> [j \in 1..Cols(a) |-> FSquare(a[i][j])] \o << >>] \o << >>
MSqrt(a) ==
    IF IsErr(a) THEN ERR
    ELSE [i \in 1..Rows(a) |-> [j \in 1..Cols(a) |-> FSqrt(a[i][j])] \o << >>] \o << >>
MExp(a) ==
    IF IsErr(a) THEN ERR
    ELSE [i \in 1..Rows(a) |-> [j \in 1..Cols(a) |-> FExp(a[i][j])] \o << >>] \o << >>
MLog(a) ==
    IF IsErr(a) THEN ERR
    ELSE [i \in 1..Rows(a) |-> [j \in 1..Cols(a) |-> FLog(a[i][j])] \o << >>] \o << >>

\* a.T
Transpose(a) ==
    IF IsErr(a) THEN ERR
    ELSE [j \in 1..Cols(a) |-> [i \in 1..Rows(a) |-> a[i][j]] \o << >>] \o << >>

RECURSIVE SumTo(_, _)
\* f[1] + ... + f[n]
SumTo(f, n) == IF n = 0 THEN 0 ELSE f[n] + SumTo(f, n - 1)

\* np.dot of two 2-D arrays: ValueError unless the inner dimensions agree.
Dot(a, b) ==
    IF IsErr(a) \/ IsErr(b) THEN ERR
    ELSE IF Cols(a) # Rows(b) THEN ERR
    ELSE [i \in 1..Rows(a) |->
             [j \in 1..Cols(b) |->
                 SumTo([k \in 1..Cols(a) |-> FMul(a[i][k], b[k][j])], Cols(a))]
                 \o << >>] \o << >>

\* np.sum(a, axis=0, keepdims=True): the column sums as a 1 x cols row.
SumAxis0(a) ==
    IF IsErr(a) THEN ERR
    ELSE << [j \in 1..Cols(a) |-> SumTo([k \in 1..Rows(a) |-> a[k][j]], Rows(a))]
                \o << >> >>

\* np.sum(a, axis=1, keepdims=True): the row sums as a rows x 1 column.
SumAxis1(a) ==
    IF IsErr(a) THEN ERR
    ELSE [i \in 1..Rows(a) |-> << SumTo(a[i], Cols(a)) >>] \o << >>

\* w -= d, in place: d is broadcast to w's shape; ValueError when the broadcast
\* shape is not w's own shape (w is then left as it was).
ISub(w, d) ==
    IF IsErr(w) \/ IsErr(d) THEN ERR
    ELSE IF ~Broadcastable(w, d) THEN ERR
    ELSE IF Max2(Rows(w), Rows(d)) # Rows(w) \/ Max2(Cols(w), Cols(d)) # Cols(w) THEN ERR
    ELSE MSub(w, d)

\* ------------------------------------------------------------------ optimizers

\* GradientDescent.update_weights: weight_matrix -= self.learning_rate * gradient.
GDUpdateWeights(learning_rate, weight_matrix, gradient) ==
    ISub(weight_matrix, MScale(learning_rate, gradient))

\* RMSProp.update_weights, line 27: the new running statistic r.
MutRMSPropForgetR(gamma, r, gradient) ==
    MScale(gamma, MSquare(gradient))
MutRMSPropSwapGamma(gamma, r, gradient) ==
    MAdd(MScale(SCALE - gamma, MSquare(gradient)), MScale(gamma, r))
RMSPropR(gamma, r, gradient) ==
    MAdd(MScale(gamma, MSquare(gradient)), MScale(SCALE - gamma, r))

\* RMSProp.update_weights, lines 28-29: velocity from the new r.
RMSPropVelocity(alpha, eps, r, gradient) ==
    MMul(MDiv(Scalar(alpha), MAdd(MSqrt(r), Scalar(eps))), gradient)

\* ------------------------------------------------------------------ engine

\* sigmoid(vector) = 1 / (1 + np.exp(-vector))
Sigmoid(vector) ==
    MDiv(Scalar(SCALE), MAdd(Scalar(SCALE), MExp(MScale(-SCALE, vector))))

\* softmax(vector) = np.exp(vector) / np.sum(np.exp(vector), axis=1, keepdims=True)
Softmax(vector) ==
    MDiv(MExp(vector), SumAxis1(MExp(vector)))

\* forward_pass: (softmax output, hidden activations); ERR when an operation raises.
ForwardPass(input, input_hidden_weight, bias_input, hidden_output_weight, bias_hidden) ==
    LET hidden_layer == MAdd(Dot(input, input_hidden_weight), bias_input)
        hidden_activations == Sigmoid(hidden_layer)
        output == Softmax(MAdd(Dot(hidden_activations, hidden_output_weight), bias_hidden))
    IN  IF IsErr(output) THEN ERR ELSE <<output, hidden_activations>>

\* log_loss: the mean over the rows of -sum(true * log(net) / classes); not a
\* finite number when an entry of net_output is zero (np.log gives -inf there).
LogLoss(true_output, net_output) ==
    IF \E i \in 1..Rows(net_output) : \E j \in 1..Cols(net_output) :
           net_output[i][j] <= 0
    THEN [finite |-> FALSE, value |-> 0]
    ELSE LET sum == SumAxis1(MOverInt(MMul(true_output, MLog(net_output)),
                                      Cols(net_output)))
         IN  [finite |-> TRUE,
              value |-> Quot(-SumTo([i \in 1..Rows(sum) |-> sum[i][1]], Rows(sum)),
                             Rows(sum))]

RECURSIVE ArgmaxFrom(_, _, _)
\* The first index in k..Len(s) of the largest entry of s[best], s[k..Len(s)].
ArgmaxFrom(s, k, best) ==
    IF k > Len(s) THEN best
    ELSE ArgmaxFrom(s, k + 1, IF s[k] > s[best] THEN k ELSE best)

RECURSIVE Flatten(_, _)
\* The rows m[1..k] one after another (ndarray.ravel).
Flatten(m, k) == IF k = 0 THEN << >> ELSE Flatten(m, k - 1) \o m[k]

\* np.argmax(a) with no axis: the index of the first largest entry of the
\* flattened array.
ArgmaxFlat(a) == ArgmaxFrom(Flatten(a, Rows(a)), 1, 1)

\* update_weights of simple_net.py: weight_matrix -= learning_rate * gradient.
UpdateWeights(weight_matrix, gradient, learning_rate) ==
    ISub(weight_matrix, MScale(learning_rate, gradient))

\* backprop, line 57: dLdy_ = (y_ - y) / y.shape[1]
MutDLdyWithoutLabels(y, y_) ==
    MOverInt(y_, Cols(y))
DLdy(y, y_) ==
    MOverInt(MSub(y_, y), Cols(y))

\* backprop, lines 62-64: delta_h
DeltaH(hidden_output_activations, dLdy_, hidden_weights) ==
    MMul(MMul(hidden_output_activations, MOneMinus(hidden_output_activations)),
         Dot(dLdy_, Transpose(hidden_weights)))

\* backprop with delta_h computed after the first update, from the updated
\* hidden_weights.
MutBackpropDeltaAfterUpdate(y, y_, hidden_output_activations, hidden_weights, input_weights, bias_hidden, bias_input, input_x, learning_rate) ==
    LET dLdy_ == DLdy(y, y_)
        dLdhiddenActiv == Dot(Transpose(dLdy_), hidden_output_activations)
        u1 == UpdateWeights(hidden_weights, Transpose(dLdhiddenActiv), learning_rate)
        delta_h == DeltaH(hidden_output_activations, dLdy_, u1)
        dLdWinput == Dot(Transpose(input_x), delta_h)
        u2 == UpdateWeights(bias_hidden, SumAxis0(dLdy_), learning_rate)
        u3 == UpdateWeights(input_weights, dLdWinput, learning_rate)
        u4 == UpdateWeights(bias_input, SumAxis0(delta_h), learning_rate)
        ok == ~IsErr(u1) /\ ~IsErr(u2) /\ ~IsErr(u3) /\ ~IsErr(u4)
    IN  [raised |-> ~ok,
         updates |-> IF ok
                     THEN <<"hidden_weights", "bias_hidden", "input_weights", "bias_input">>
                     ELSE << >>,
         hidden_weights |-> IF ok THEN u1 ELSE hidden_weights,
         bias_hidden |-> IF ok THEN u2 ELSE bias_hidden,
         input_weights |-> IF ok THEN u3 ELSE input_weights,
         bias_input |-> IF ok THEN u4 ELSE bias_input]

\* backprop: the contents of the four parameter arrays when the call ends, and
\* whether it ended by raising, and the update_weights calls that completed, each
\* named by the array it updated.  The gradients of lines 57-66 are computed
\* first; the four in-place updates of lines 69-77 follow in order, and an
\* update that raises leaves the earlier ones done.
Backprop(y, y_, hidden_output_activations, hidden_weights, input_weights, bias_hidden, bias_input, input_x, learning_rate) ==
    LET dLdy_ == DLdy(y, y_)
        dLdhiddenActiv == Dot(Transpose(dLdy_), hidden_output_activations)
        delta_h == DeltaH(hidden_output_activations, dLdy_, hidden_weights)
        dLdWinput == Dot(Transpose(input_x), delta_h)
        ok0 == ~IsErr(dLdy_) /\ ~IsErr(dLdhiddenActiv) /\ ~IsErr(delta_h)
                   /\ ~IsErr(dLdWinput)
        u1 == UpdateWeights(hidden_weights, Transpose(dLdhiddenActiv), learning_rate)
        ok1 == ok0 /\ ~IsErr(u1)
        u2 == UpdateWeights(bias_hidden, SumAxis0(dLdy_), learning_rate)
        ok2 == ok1 /\ ~IsErr(u2)
        u3 == UpdateWeights(input_weights, dLdWinput, learning_rate)
        ok3 == ok2 /\ ~IsErr(u3)
        u4 == UpdateWeights(bias_input, SumAxis0(delta_h), learning_rate)
        ok4 == ok3 /\ ~IsErr(u4)
    IN  [raised |-> ~ok4,
         updates |-> (IF ok1 THEN <<"hidden_weights">> ELSE << >>)
                         \o (IF ok2 THEN <<"bias_hidden">> ELSE << >>)
                         \o (IF ok3 THEN <<"input_weights">> ELSE << >>)
                         \o (IF ok4 THEN <<"bias_input">> ELSE << >>),
         hidden_weights |-> IF ok1 THEN u1 ELSE hidden_weights,
         bias_hidden |-> IF ok2 THEN u2 ELSE bias_hidden,
         input_weights |-> IF ok3 THEN u3 ELSE input_weights,
         bias_input |-> IF ok4 THEN u4 ELSE bias_input]

\* The caller's four arrays once backprop has ended (returned or raised): they
\* are the arrays backprop updated in place.
ArraysAfter(res) ==
    [hidden_output_weights |-> res.hidden_weights,
     bias_output_hidden |-> res.bias_hidden,
     input_hidden_weights |-> res.input_weights,
     bias_input_hidden |-> res.bias_input]

\* backprop, line 79: return hidden_weights, bias_hidden, input_weights, bias_input
BackpropReturn(res) ==
    <<res.hidden_weights, res.bias_hidden, res.input_weights, res.bias_input>>

\* main, line 158: hidden_output_weights, bias_output_hidden,
\* input_hidden_weights, bias_input_hidden = backprop(...)
MutMainUnpackSwapped(ret) ==
    [hidden_output_weights |-> ret[3], bias_output_hidden |-> ret[2],
     input_hidden_weights |-> ret[1], bias_input_hidden |-> ret[4]]
MainUnpack(ret) ==
    [hidden_output_weights |-> ret[1], bias_output_hidden |-> ret[2],
     input_hidden_weights |-> ret[3], bias_input_hidden |-> ret[4]]

\* ------------------------------------------------------------------ state

VARIABLES
    opt_gd,      \* a GradientDescent instance: [learning_rate]
    gd_w,        \* the ndarray handed to it as weight_matrix (updated in place)
    gd_log,      \* its calls so far: [g: gradient, ret: the array as returned]
    opt_rms,     \* an RMSProp instance: [r, gamma, velocity, alpha, eps]
    rms_w,       \* the ndarray handed to it as weight_matrix (updated in place)
    rms_log,     \* its calls since construction: [w: weight on entry, g, ret]
    n_calls,     \* update_weights calls made so far on either instance
    constants,   \* the module-level names of constants.py (from constants import *)
    args,        \* the arrays of the current batch: [y, y_, hidden, x], and the
                 \* optimizers a caller holds for the four parameter tensors
    params,      \* the four parameter arrays, updated in place
    entry,       \* args and params as they were when backprop was entered
    bp,          \* the backprop call: [pc, raised]
    main,        \* main(): [pc, epoch, batch, step, correct_predictions, loss, accuracy]
    data,        \* the dataset files and what main loaded from them
    trace        \* what the last forward pass read and the last backprop returned

optVars == <<opt_gd, gd_w, gd_log, opt_rms, rms_w, rms_log, n_calls>>
netVars == <<constants, args, params, entry, bp>>
mainVars == <<main, data, trace>>

vars == <<optVars, netVars, mainVars>>

\* ------------------------------------------------------------------ bounds

\* The number of update_weights calls explored.
MaxCalls == 3

\* The gradients and the initial weights handed to an optimizer, 1 x 2 arrays
\* (fixed-point: 100 is 1.0).
Grads == { << <<100, 100>> >>, << <<0, 0>> >>, << <<-50, 100>> >>, << <<200, 30>> >> }
Weights == { << <<0, 0>> >>, << <<100, -40>> >> }

\* Constructor arguments: GradientDescent(learning_rate), RMSProp(gamma, alpha, eps).
LearningRates == {10, 50}
Gammas == {90, 50}
Alphas == {10}
Epsilons == {1}

NoArgs == [y |-> ERR, y_ |-> ERR, hidden |-> ERR, x |-> ERR, optimizers |-> "none"]

NoParams == [input_hidden_weights |-> ERR, bias_input_hidden |-> ERR,
             hidden_output_weights |-> ERR, bias_output_hidden |-> ERR]

NoTrace == [fed |-> << >>, produced |-> << >>, updates |-> << >>, phases |-> << >>,
            steps |-> 0]

\* main()'s variables while main is not running.
MainIdle ==
    /\ main = [pc |-> "idle"]
    /\ data = [loaded |-> FALSE]
    /\ trace = NoTrace

\* The engine's variables while only the optimizers are exercised.
NetIdle ==
    /\ constants = [LEARNING_RATE |-> 10]
    /\ args = NoArgs
    /\ params = NoParams
    /\ entry = [args |-> args, params |-> params]
    /\ bp = [pc |-> "idle", raised |-> FALSE]
    /\ MainIdle

\* ------------------------------------------------------------------ optimizers: operations

\* RMSProp.__init__
RMSPropInit(gamma, alpha, eps) ==
    [r |-> Scalar(0), gamma |-> gamma, velocity |-> Scalar(0),
     alpha |-> alpha, eps |-> eps]

\* GradientDescent.__init__
GradientDescentInit(learning_rate) == [learning_rate |-> learning_rate]

OptInit ==
    /\ opt_gd \in {GradientDescentInit(lr) : lr \in LearningRates}
    /\ gd_w \in Weights
    /\ gd_log = << >>
    /\ opt_rms \in {RMSPropInit(ga, al, ep) : ga \in Gammas, al \in Alphas, ep \in Epsilons}
    /\ rms_w \in Weights
    /\ rms_log = << >>
    /\ n_calls = 0
    /\ NetIdle

\* A call opt_gd.update_weights(gd_w, g): gd_w is changed in place and returned.
GDCall(g) ==
    /\ n_calls < MaxCalls
    /\ gd_w' = GDUpdateWeights(opt_gd.learning_rate, gd_w, g)
    /\ gd_log' = Append(gd_log, [g |-> g, ret |-> gd_w'])
    /\ n_calls' = n_calls + 1
    /\ UNCHANGED <<opt_gd, opt_rms, rms_w, rms_log, netVars, mainVars>>

\* A call opt_rms.update_weights(rms_w, g).
RMSCall(g) ==
    /\ n_calls < MaxCalls
    /\ LET r == RMSPropR(opt_rms.gamma, opt_rms.r, g)
           velocity == RMSPropVelocity(opt_rms.alpha, opt_rms.eps, r, g)
       IN  /\ opt_rms' = [opt_rms EXCEPT !.r = r, !.velocity = velocity]
           /\ rms_w' = ISub(rms_w, velocity)
           /\ rms_log' = Append(rms_log, [w |-> rms_w, g |-> g, ret |-> rms_w'])
    /\ n_calls' = n_calls + 1
    /\ UNCHANGED <<opt_gd, gd_w, gd_log, netVars, mainVars>>

\* opt_rms = RMSProp(gamma, alpha, eps): a new instance replaces the old one.
RMSConstruct(gamma, alpha, eps) ==
    /\ rms_log # << >>
    /\ opt_rms' = RMSPropInit(gamma, alpha, eps)
    /\ rms_log' = << >>
    /\ UNCHANGED <<opt_gd, gd_w, gd_log, rms_w, n_calls, netVars, mainVars>>

OptNext ==
    \/ \E g \in Grads : GDCall(g)
    \/ \E g \in Grads : RMSCall(g)
    \/ \E ga \in Gammas, al \in Alphas, ep \in Epsilons : RMSConstruct(ga, al, ep)

SpecOptim == OptInit /\ [][OptNext]_vars

\* ------------------------------------------------------------------ backprop: operations

\* The optimizers' variables while only the engine is exercised.
OptIdle ==
    /\ opt_gd = GradientDescentInit(10)
    /\ gd_w = Scalar(0)
    /\ gd_log = << >>
    /\ opt_rms = RMSPropInit(90, 10, 1)
    /\ rms_w = Scalar(0)
    /\ rms_log = << >>
    /\ n_calls = 0

\* Arguments a caller may hand to forward_pass and backprop (fixed-point: 100 is
\* 1.0).  Batches of one and two rows, one input column, one and two hidden
\* units, two classes; the arrays are drawn independently, so that calls whose
\* operands do not fit together are among them.
LabelBatches ==
    { << <<100, 0>> >>, << <<0, 100>> >>,
      << <<100, 0>>, <<0, 100>> >>, << <<0, 100>>, <<0, 100>> >> }
PredictionBatches ==
    { << <<100, 0>> >>, << <<30, 70>> >>,
      << <<100, 0>>, <<0, 100>> >>, << <<60, 40>>, <<20, 80>> >>,
      << <<0, 100>>, <<0, 100>> >> }
HiddenBatches ==
    { << <<50>> >>, << <<50>>, <<20>> >>,
      << <<50, 80>> >>, << <<50, 80>>, <<20, 60>> >> }
InputBatches == { << <<100>> >>, << <<100>>, <<-200>> >> }
HiddenOutputWeights == { << <<100, -100>> >>, << <<100, -100>>, <<50, 200>> >> }
InputHiddenWeights == { << <<100>> >>, << <<100, -50>> >> }
OutputBiases == { << <<0, 100>> >>, << <<0, 100>>, <<100, 0>> >> }
HiddenBiases == { << <<10>> >>, << <<10, -20>> >> }

\* What a caller following the documented contract would pass as `optimizers`:
\* one Optimizer instance per parameter tensor.
OptimizerSets ==
    { [t \in {"hidden_weights", "bias_hidden", "input_weights", "bias_input"} |-> o] :
        o \in { [kind |-> "GradientDescent", learning_rate |-> 10],
                [kind |-> "GradientDescent", learning_rate |-> 50],
                [kind |-> "RMSProp", gamma |-> 90, alpha |-> 10, eps |-> 1] } }

BackpropInit ==
    /\ OptIdle
    /\ constants \in [LEARNING_RATE : {10, 200}]
    /\ args \in [y : LabelBatches, y_ : PredictionBatches, hidden : HiddenBatches,
                 x : InputBatches, optimizers : OptimizerSets]
    /\ params \in [input_hidden_weights : InputHiddenWeights,
                   bias_input_hidden : HiddenBiases,
                   hidden_output_weights : HiddenOutputWeights,
                   bias_output_hidden : OutputBiases]
    /\ entry = [args |-> args, params |-> params]
    /\ bp = [pc |-> "ready", raised |-> FALSE]
    /\ MainIdle

\* output_layer, hidden_activations = forward_pass(x, ...): the outputs replace
\* the caller's predictions and hidden activations.
ForwardCall ==
    /\ bp.pc = "ready"
    /\ LET out == ForwardPass(args.x, params.input_hidden_weights,
                              params.bias_input_hidden,
                              params.hidden_output_weights,
                              params.bias_output_hidden)
       IN  IF IsErr(out)
           THEN /\ bp' = [pc |-> "forward_raised", raised |-> TRUE]
                /\ UNCHANGED args
           ELSE /\ bp' = [pc |-> "forwarded", raised |-> FALSE]
                /\ args' = [args EXCEPT !.y_ = out[1], !.hidden = out[2]]
    /\ UNCHANGED <<optVars, constants, params, entry, mainVars>>

\* backprop(y, y_, hidden, hidden_weights, input_weights, bias_hidden, bias_input, x)
BackpropCall ==
    /\ bp.pc \in {"ready", "forwarded"}
    /\ LET res == Backprop(args.y, args.y_, args.hidden,
                           params.hidden_output_weights,
                           params.input_hidden_weights,
                           params.bias_output_hidden,
                           params.bias_input_hidden,
                           args.x, constants.LEARNING_RATE)
       IN  /\ params' = ArraysAfter(res)
           /\ bp' = [pc |-> "done", raised |-> res.raised]
    /\ entry' = [args |-> args, params |-> params]
    /\ UNCHANGED <<optVars, constants, args, mainVars>>

BackpropNext == ForwardCall \/ BackpropCall

SpecBackprop == BackpropInit /\ [][BackpropNext]_vars

\* ------------------------------------------------------------------ main: collaborators

\* The sizes main's assertions take for the MNIST test and training sets.
TestSetSize == 10000
TrainSetSize == 60000

\* The dataset files: images (one row per example, IMAGE_SIZE**2 columns) and
\* one-hot labels (CLASSES columns).
DatasetFiles ==
    { [train |-> [images |-> << <<100>>, <<-200>>, <<50>>, <<-100>> >>,
                  labels |-> << <<100, 0>>, <<0, 100>>, <<100, 0>>, <<0, 100>> >>],
       eval |-> [images |-> << <<100>>, <<-100>>, <<200>> >>,
                 labels |-> << <<100, 0>>, <<0, 100>>, <<100, 0>> >>]],
      [train |-> [images |-> << <<-100>>, <<200>>, <<100>>, <<0>> >>,
                  labels |-> << <<0, 100>>, <<0, 100>>, <<100, 0>>, <<0, 100>> >>],
       eval |-> [images |-> << <<100>>, <<-100>>, <<200>> >>,
                 labels |-> << <<0, 100>>, <<100, 0>>, <<0, 100>> >>]] }

Min2(a, b) == IF a <= b THEN a ELSE b

\* mnist_loader.load(input, output, n): the first n examples of the file.
Load(file, n) ==
    LET k == Min2(n, Rows(file.images))
    IN  [images |-> SubSeq(file.images, 1, k), labels |-> SubSeq(file.labels, 1, k)]

\* Batcher(data, size).next_batch(): the number of batches of one pass, and the
\* k-th of them, consecutive slices of at most size rows.
NumBatches(d, size) == (Rows(d.images) + size - 1) \div size
BatchOf(d, size, k) ==
    LET lo == (k - 1) * size + 1
        hi == Min2(k * size, Rows(d.images))
    IN  [image |-> SubSeq(d.images, lo, hi), label |-> SubSeq(d.labels, lo, hi)]

\* np.random.randn(rows, cols): the samples the model draws from.
Randn(rows, cols) ==
    { [i \in 1..rows |-> [j \in 1..cols |-> 100 - 150 * ((i + j) % 2)] \o << >>] \o << >>,
      [i \in 1..rows |-> [j \in 1..cols |-> 40 * j - 70 * i] \o << >>] \o << >> }

\* ------------------------------------------------------------------ main: operations

\* main, lines 113-115: the three assertions.
MutConstantsOKWithoutTrainBound(c) ==
    /\ c.BATCH_SIZE % 2 = 0
    /\ 0 <= c.NO_EXAMPLES_TEST /\ c.NO_EXAMPLES_TEST <= TestSetSize
    /\ 0 <= c.NO_EXAMPLES_TRAIN
ConstantsOK(c) ==
    /\ c.BATCH_SIZE % 2 = 0
    /\ 0 <= c.NO_EXAMPLES_TEST /\ c.NO_EXAMPLES_TEST <= TestSetSize
    /\ 0 <= c.NO_EXAMPLES_TRAIN /\ c.NO_EXAMPLES_TRAIN <= TrainSetSize

\* main, line 181: correct_predictions = 0 before the evaluation loop.
MutEvalKeepsCount(correct_predictions) == correct_predictions
EvalResetCount(correct_predictions) == 0

\* main, lines 169-170 and 190-191: one more correct prediction when the
\* argmax of the output equals the argmax of the label.
CountCorrect(correct_predictions, output_layer, label) ==
    IF ArgmaxFlat(output_layer) = ArgmaxFlat(label)
    THEN correct_predictions + 1
    ELSE correct_predictions

\* main's call of forward_pass on image with the current parameters (lines
\* 149-153 and 184-188), and the parameters it passes, by forward_pass's names.
FedTo(p) ==
    [input_hidden_weight |-> p.input_hidden_weights,
     bias_input |-> p.bias_input_hidden,
     hidden_output_weight |-> p.hidden_output_weights,
     bias_hidden |-> p.bias_output_hidden]
MainForward(image, p) ==
    LET f == FedTo(p)
    IN  ForwardPass(image, f.input_hidden_weight, f.bias_input,
                    f.hidden_output_weight, f.bias_hidden)

\* The position main reaches when it enters the body of `for epoch`.
EpochStart(m, d, c) ==
    IF m.epoch >= c.EPOCHS THEN [m EXCEPT !.pc = "done"]
    ELSE IF NumBatches(d.train, c.BATCH_SIZE) > 0
         THEN [m EXCEPT !.pc = "forward", !.batch = 1]
         ELSE [m EXCEPT !.pc = "eval"]

MainInit ==
    /\ OptIdle
    /\ constants \in [LEARNING_RATE : {10, 200}, BATCH_SIZE : {1, 2},
                      NO_EXAMPLES_TEST : {-1, 0, 2, 3, TestSetSize + 1},
                      NO_EXAMPLES_TRAIN : {2, 4, TrainSetSize + 1},
                      EPOCHS : {1, 2}, IMAGE_SIZE : {1}, HIDDEN_LAYER_SIZE : {2},
                      CLASSES : {2}]
    /\ args = NoArgs
    /\ params = NoParams
    /\ entry = [args |-> args, params |-> params]
    /\ bp = [pc |-> "idle", raised |-> FALSE]
    /\ main = [pc |-> "start", epoch |-> 0, batch |-> 0, step |-> 0,
               correct_predictions |-> 0, loss |-> [finite |-> TRUE, value |-> 0],
               accuracy |-> -1]
    /\ data \in {[loaded |-> FALSE, files |-> f] : f \in DatasetFiles}
    /\ trace = NoTrace

\* Lines 113-115: an assertion that fails ends the run.
Validate ==
    /\ main.pc = "start"
    /\ main' = [main EXCEPT !.pc = IF ConstantsOK(constants) THEN "load" ELSE "rejected"]
    /\ UNCHANGED <<optVars, netVars, data, trace>>

\* Lines 117-125: the data is loaded and the batchers are made.
LoadData ==
    /\ main.pc = "load"
    /\ data' = [loaded |-> TRUE, files |-> data.files,
                train |-> Load(data.files.train, constants.NO_EXAMPLES_TRAIN),
                eval |-> Load(data.files.eval, constants.NO_EXAMPLES_TEST)]
    /\ main' = [main EXCEPT !.pc = "init"]
    /\ UNCHANGED <<optVars, netVars, trace>>

\* Lines 127-142: the parameters are drawn, the counters are set to zero and
\* the first epoch begins.
InitWeights ==
    /\ main.pc = "init"
    /\ \E w1 \in Randn(constants.IMAGE_SIZE * constants.IMAGE_SIZE,
                       constants.HIDDEN_LAYER_SIZE),
          b1 \in Randn(1, constants.HIDDEN_LAYER_SIZE),
          w2 \in Randn(constants.HIDDEN_LAYER_SIZE, constants.CLASSES),
          b2 \in Randn(1, constants.CLASSES) :
          params' =
              [input_hidden_weights |->
                   MDiv(w1, Scalar(FSqrt(constants.IMAGE_SIZE * constants.IMAGE_SIZE
                                             * SCALE))),
               bias_input_hidden |-> b1,
               hidden_output_weights |->
                   MDiv(w2, Scalar(FSqrt(constants.HIDDEN_LAYER_SIZE * SCALE))),
               bias_output_hidden |-> b2]
    /\ main' = EpochStart([main EXCEPT !.correct_predictions = 0, !.step = 0],
                          data, constants)
    /\ UNCHANGED <<optVars, constants, args, entry, bp, data, trace>>

\* Lines 147-153: the next training batch is taken and forward_pass is called.
TrainForward ==
    /\ main.pc = "forward"
    /\ LET b == BatchOf(data.train, constants.BATCH_SIZE, main.batch)
           out == MainForward(b.image, params)
       IN  IF IsErr(out)
           THEN /\ main' = [main EXCEPT !.pc = "error"]
                /\ UNCHANGED args
           ELSE /\ main' = [main EXCEPT !.pc = "loss"]
                /\ args' = [x |-> b.image, y |-> b.label, y_ |-> out[1],
                            hidden |-> out[2], optimizers |-> "none"]
    /\ trace' = [trace EXCEPT !.fed = FedTo(params), !.phases = <<"forward">>,
                              !.updates = << >>]
    /\ UNCHANGED <<optVars, constants, params, entry, bp, data>>

\* Line 155: the batch loss.
TrainLoss ==
    /\ main.pc = "loss"
    /\ main' = [main EXCEPT !.loss = LogLoss(args.y, args.y_), !.pc = "backprop"]
    /\ trace' = [trace EXCEPT !.phases = Append(@, "loss")]
    /\ UNCHANGED <<optVars, netVars, data>>

\* Lines 158-166: backprop is called and its result is bound to the four names.
TrainBackprop ==
    /\ main.pc = "backprop"
    /\ LET res == Backprop(args.y, args.y_, args.hidden,
                           params.hidden_output_weights,
                           params.input_hidden_weights,
                           params.bias_output_hidden,
                           params.bias_input_hidden,
                           args.x, constants.LEARNING_RATE)
       IN  /\ params' = IF res.raised THEN ArraysAfter(res)
                        ELSE MainUnpack(BackpropReturn(res))
           /\ main' = [main EXCEPT !.pc = IF res.raised THEN "error" ELSE "count"]
           /\ trace' = [trace EXCEPT
                           !.produced = [hidden_weights |-> res.hidden_weights,
                                         bias_hidden |-> res.bias_hidden,
                                         input_weights |-> res.input_weights,
                                         bias_input |-> res.bias_input],
                           !.updates = res.updates,
                           !.phases = Append(@, "backprop"),
                           !.steps = @ + 1]
    /\ entry' = [args |-> args, params |-> params]
    /\ UNCHANGED <<optVars, constants, args, bp, data>>

\* Lines 168-178: the prediction is counted, step advances, and the loop goes
\* on to the next batch or leaves for the evaluation.
TrainCount ==
    /\ main.pc = "count"
    /\ main' = [main EXCEPT
                   !.correct_predictions = CountCorrect(@, args.y_, args.y),
                   !.step = @ + constants.BATCH_SIZE,
                   !.batch = @ + 1,
                   !.pc = IF main.batch < NumBatches(data.train, constants.BATCH_SIZE)
                          THEN "forward" ELSE "eval"]
    /\ UNCHANGED <<optVars, netVars, data, trace>>

\* Line 181: the count is reset before the evaluation loop.
EvalBegin ==
    /\ main.pc = "eval"
    /\ main' = [main EXCEPT
                   !.correct_predictions = EvalResetCount(@),
                   !.batch = 1,
                   !.pc = IF NumBatches(data.eval, 1) > 0 THEN "eval_forward"
                          ELSE "report"]
    /\ UNCHANGED <<optVars, netVars, data, trace>>

\* Lines 182-191: one evaluation example (eval_batcher's batches have one row):
\* forward_pass, then the count.
EvalExample ==
    /\ main.pc = "eval_forward"
    /\ LET b == BatchOf(data.eval, 1, main.batch)
           out == MainForward(b.image, params)
       IN  IF IsErr(out)
           THEN /\ main' = [main EXCEPT !.pc = "error"]
                /\ UNCHANGED args
           ELSE /\ args' = [x |-> b.image, y |-> b.label, y_ |-> out[1],
                            hidden |-> out[2], optimizers |-> "none"]
                /\ main' = [main EXCEPT
                               !.correct_predictions = CountCorrect(@, out[1], b.label),
                               !.batch = @ + 1,
                               !.pc = IF main.batch < NumBatches(data.eval, 1)
                                      THEN "eval_forward" ELSE "report"]
    /\ trace' = [trace EXCEPT !.fed = FedTo(params)]
    /\ UNCHANGED <<optVars, constants, params, entry, bp, data>>

\* Lines 193-194: the accuracy is printed; ZeroDivisionError when
\* NO_EXAMPLES_TEST is 0.
Report ==
    /\ main.pc = "report"
    /\ main' = IF constants.NO_EXAMPLES_TEST = 0
               THEN [main EXCEPT !.pc = "error"]
               ELSE [main EXCEPT
                        !.accuracy = Quot(main.correct_predictions * SCALE,
                                          constants.NO_EXAMPLES_TEST),
                        !.pc = "reported"]
    /\ UNCHANGED <<optVars, netVars, data, trace>>

\* Line 144: the next epoch, or the end of main.
EpochEnd ==
    /\ main.pc = "reported"
    /\ main' = EpochStart([main EXCEPT !.epoch = @ + 1], data, constants)
    /\ UNCHANGED <<optVars, netVars, data, trace>>

MainNext ==
    \/ Validate
    \/ LoadData
    \/ InitWeights
    \/ TrainForward
    \/ TrainLoss
    \/ TrainBackprop
    \/ TrainCount
    \/ EvalBegin
    \/ EvalExample
    \/ Report
    \/ EpochEnd

SpecMain == MainInit /\ [][MainNext]_vars

\* ================================================================== claims

\* ------------------------------------------------------------------ shapes and gradients

\* The operands of a call fit together as documented: x is N x D, y and y_ are
\* N x C, hidden is N x H, the weights are D x H and H x C, the biases 1 x H
\* and 1 x C (the bias rows being the only operands broadcast).
WellShaped(a, p) ==
    LET n == Rows(a.x)
        d == Cols(a.x)
        h == Cols(a.hidden)
        c == Cols(a.y_)
    IN  /\ Shape(a.y) = <<n, c>>
        /\ Shape(a.y_) = <<n, c>>
        /\ Shape(a.hidden) = <<n, h>>
        /\ Shape(p.input_hidden_weights) = <<d, h>>
        /\ Shape(p.bias_input_hidden) = <<1, h>>
        /\ Shape(p.hidden_output_weights) = <<h, c>>
        /\ Shape(p.bias_output_hidden) = <<1, c>>

\* The operands of forward_pass fit together as documented.
ForwardWellShaped(a, p) ==
    LET d == Cols(a.x)
        h == Cols(p.input_hidden_weights)
        c == Cols(p.hidden_output_weights)
    IN  /\ Shape(p.input_hidden_weights) = <<d, h>>
        /\ Shape(p.bias_input_hidden) = <<1, h>>
        /\ Shape(p.hidden_output_weights) = <<h, c>>
        /\ Shape(p.bias_output_hidden) = <<1, c>>

ParamNames ==
    {"input_hidden_weights", "bias_input_hidden",
     "hidden_output_weights", "bias_output_hidden"}

\* The four gradients of one backprop call, each computed from the labels,
\* predictions, hidden activations, input batch and hidden-to-output weights in
\* a (the arguments) and p (the parameters).
GradientsFrom(a, p) ==
    LET d_output == MOverInt(MSub(a.y_, a.y), Cols(a.y))
        delta_hidden ==
            MMul(MMul(a.hidden, MOneMinus(a.hidden)),
                 Dot(d_output, Transpose(p.hidden_output_weights)))
    IN  [hidden_output_weights |-> Transpose(Dot(Transpose(d_output), a.hidden)),
         bias_output_hidden |-> SumAxis0(d_output),
         input_hidden_weights |-> Dot(Transpose(a.x), delta_hidden),
         bias_input_hidden |-> SumAxis0(delta_hidden)]

\* The orders in which the four updates can be applied.
UpdateOrders ==
    {o \in [1..4 -> ParamNames] : \A i, j \in 1..4 : o[i] = o[j] => i = j}

RECURSIVE ApplyInOrder(_, _, _, _, _)
\* p after the updates p[t] <- p[t] - rate * grads[t] for t = order[1..k], in order.
ApplyInOrder(order, k, p, grads, rate) ==
    IF k = 0 THEN p
    ELSE LET q == ApplyInOrder(order, k - 1, p, grads, rate)
             t == order[k]
         IN  [q EXCEPT ![t] = MSub(q[t], MScale(rate, grads[t]))]

\* ------------------------------------------------------------------ C1
\* C1: a backprop call whose predictions equal the true labels leaves all four
\* parameter tensors with the values they had before the call.
T_C1_ZeroGradientNoChange ==
    (bp.pc = "done" /\ entry.args.y_ = entry.args.y) => params = entry.params

W_C1_ZeroGradientNoChange ==
    /\ bp.pc = "done"
    /\ ~bp.raised
    /\ entry.args.y_ = entry.args.y
    /\ WellShaped(entry.args, entry.params)
    /\ Rows(entry.args.x) = 2
    /\ Cols(entry.args.hidden) = 2
    /\ params = entry.params

\* ------------------------------------------------------------------ C4
\* C4 (as stated): a forward_pass or backprop call whose operands do not fit
\* together (beyond the bias rows broadcast across the batch) ends in an error,
\* and a failed backprop call changes no parameter tensor.
CX_C4_MismatchFailsFast ==
    /\ (bp.pc = "done" /\ ~WellShaped(entry.args, entry.params)) => bp.raised
    /\ (bp.pc = "done" /\ bp.raised) => params = entry.params
    /\ bp.pc = "forwarded" => ForwardWellShaped(args, params)

\* ------------------------------------------------------------------ C5
\* C5: in one backprop call that returns, each of the four tensors ends as its
\* value at entry minus LEARNING_RATE times a gradient computed from the
\* predictions, hidden activations, input batch and W2 as they were at entry;
\* so applying the four updates in any order gives the same four tensors.
T_C5_GradientsFromEntry ==
    (bp.pc = "done" /\ ~bp.raised) =>
        LET grads == GradientsFrom(entry.args, entry.params)
        IN  \A o \in UpdateOrders :
                params = ApplyInOrder(o, 4, entry.params, grads,
                                      constants.LEARNING_RATE)

W_C5_GradientsFromEntry ==
    /\ bp.pc = "done"
    /\ ~bp.raised
    /\ WellShaped(entry.args, entry.params)
    /\ Rows(entry.args.x) = 2
    /\ Cols(entry.args.hidden) = 2
    /\ \A t \in ParamNames : params[t] # entry.params[t]

\* ------------------------------------------------------------------ C7
\* What the Optimizer instance o returns for (weight, gradient) on its first call.
OptimizerUpdate(o, weight, gradient) ==
    IF o.kind = "GradientDescent"
    THEN GDUpdateWeights(o.learning_rate, weight, gradient)
    ELSE ISub(weight,
              RMSPropVelocity(o.alpha, o.eps,
                              RMSPropR(o.gamma, Scalar(0), gradient), gradient))

\* C7 (as stated): backprop leaves each parameter tensor with the value that the
\* tensor's own Optimizer instance, among the optimizers handed to the call,
\* returns for (value at entry, gradient).
CX_C7_UpdatesByGivenOptimizers ==
    (bp.pc = "done" /\ ~bp.raised /\ WellShaped(entry.args, entry.params)) =>
        LET grads == GradientsFrom(entry.args, entry.params)
            o == entry.args.optimizers
        IN  /\ params.hidden_output_weights
                 = OptimizerUpdate(o["hidden_weights"],
                       entry.params.hidden_output_weights, grads.hidden_output_weights)
            /\ params.bias_output_hidden
                 = OptimizerUpdate(o["bias_hidden"],
                       entry.params.bias_output_hidden, grads.bias_output_hidden)
            /\ params.input_hidden_weights
                 = OptimizerUpdate(o["input_weights"],
                       entry.params.input_hidden_weights, grads.input_hidden_weights)
            /\ params.bias_input_hidden
                 = OptimizerUpdate(o["bias_input"],
                       entry.params.bias_input_hidden, grads.bias_input_hidden)

\* ------------------------------------------------------------------ C6
\* The index of the first largest entry of one row.
ArgmaxRow(row) ==
    CHOOSE j \in 1..Len(row) :
        /\ \A k \in 1..Len(row) : row[k] <= row[j]
        /\ \A k \in 1..(j - 1) : row[k] < row[j]

\* The rows of the evaluated data whose prediction, under the parameters p, has
\* the argmax of the true label.
MatchingRows(d, p) ==
    {i \in 1..Rows(d.images) :
        ArgmaxRow(MainForward(<<d.images[i]>>, p)[1][1]) = ArgmaxRow(d.labels[i])}

\* C6: the count behind the reported accuracy is the number of rows of the
\* evaluated data whose prediction has the argmax of its true label, and
\* nothing else; the reported accuracy is 1.0 when every row matches and 0.0
\* when none does.
T_C6_ReportedAccuracy ==
    main.pc = "reported" =>
        LET matching == Cardinality(MatchingRows(data.eval, params))
        IN  /\ main.correct_predictions = matching
            /\ matching = Rows(data.eval.images) => main.accuracy = SCALE
            /\ matching = 0 => main.accuracy = 0

W_C6_ReportedAccuracy ==
    /\ main.pc = "reported"
    /\ main.epoch = 1
    /\ Rows(data.eval.images) = 3
    /\ Cardinality(MatchingRows(data.eval, params)) = 3
    /\ main.accuracy = SCALE

\* ------------------------------------------------------------------ C8
\* A configuration violation as the claim names them: a batch size that breaks
\* the divisibility constraint, or a requested example count larger than the
\* dataset.
ConfigViolated(c) ==
    \/ c.BATCH_SIZE % 2 # 0
    \/ c.NO_EXAMPLES_TEST > TestSetSize
    \/ c.NO_EXAMPLES_TRAIN > TrainSetSize

NothingStarted ==
    /\ main.pc \in {"start", "rejected"}
    /\ ~data.loaded
    /\ params = NoParams
    /\ main.step = 0
    /\ trace.steps = 0

\* C8: with a configuration violation the run is rejected at its start: no
\* data is loaded, no parameter is initialised, no training step is taken, and
\* the configuration is never changed.
T_C8_RejectedAtStart ==
    /\ [](ConfigViolated(constants) => NothingStarted)
    /\ [][constants' = constants]_vars

W_C8_RejectedAtStart ==
    /\ ConfigViolated(constants)
    /\ constants.NO_EXAMPLES_TRAIN > TrainSetSize
    /\ constants.BATCH_SIZE % 2 = 0
    /\ main.pc = "rejected"

\* ------------------------------------------------------------------ C9
\* What the last forward pass read is, role by role, what the last backprop
\* returned.
FedIsProduced ==
    /\ trace.fed.input_hidden_weight = trace.produced.input_weights
    /\ trace.fed.bias_input = trace.produced.bias_input
    /\ trace.fed.hidden_output_weight = trace.produced.hidden_weights
    /\ trace.fed.bias_hidden = trace.produced.bias_hidden

\* C9: in every training step Forward, Loss and Backprop run in that order;
\* the parameters are not modified between the step's forward pass and its
\* backprop; backprop updates each of the four tensors exactly once; and what
\* backprop returns is what the next forward pass reads, each tensor in its
\* own role.
T_C9_StepOrderAndRoles ==
    /\ main.pc \in {"loss", "backprop"} => FedTo(params) = trace.fed
    /\ main.pc = "count" =>
          /\ trace.phases = <<"forward", "loss", "backprop">>
          /\ Len(trace.updates) = 4
          /\ \A t \in {"hidden_weights", "bias_hidden", "input_weights", "bias_input"} :
                 Cardinality({k \in 1..4 : trace.updates[k] = t}) = 1
          /\ FedTo(params) = [input_hidden_weight |-> trace.produced.input_weights,
                              bias_input |-> trace.produced.bias_input,
                              hidden_output_weight |-> trace.produced.hidden_weights,
                              bias_hidden |-> trace.produced.bias_hidden]
    /\ (main.pc \in {"loss", "backprop"} /\ trace.steps > 0) => FedIsProduced
    /\ (main.pc = "report" /\ trace.steps > 0 /\ Rows(data.eval.images) > 0)
          => FedIsProduced

W_C9_StepOrderAndRoles ==
    /\ main.pc = "loss"
    /\ trace.steps >= 2
    /\ FedIsProduced
    /\ trace.produced.hidden_weights # entry.params.hidden_output_weights
    /\ trace.produced.input_weights # entry.params.input_hidden_weights

\* ------------------------------------------------------------------ C2
\* C2 (as stated): for two calls update(w, g1) and update(w, g2) of one
\* GradientDescent instance on the same array w, the first result minus the
\* second result equals -learning_rate * (g1 - g2).
CX_C2_GDLinearOnSameW ==
    \A k \in 1..(Len(gd_log) - 1) :
        MSub(gd_log[k].ret, gd_log[k + 1].ret)
            = MScale(-opt_gd.learning_rate, MSub(gd_log[k].g, gd_log[k + 1].g))

\* ------------------------------------------------------------------ C3
\* C3 (as stated): after one update call of a freshly constructed RMSProp with
\* gradient [1, 1] and gamma = 0.9, r is [0.1, 0.1].
CX_C3_ROneTenth ==
    (/\ Len(rms_log) = 1
     /\ rms_log[1].g = << <<SCALE, SCALE>> >>
     /\ opt_rms.gamma = 90)
        => opt_rms.r = << <<10, 10>> >>

\* C3 (amended): after one update call of a freshly constructed RMSProp (r = 0)
\* with gradient g, r is (1 - gamma) * 0 + gamma * g^2 element-wise; for
\* g = [1, 1] and gamma = 0.9 that is [0.9, 0.9].
T_C3_RAfterFirstCall ==
    Len(rms_log) = 1 =>
        LET g == rms_log[1].g
        IN  /\ Shape(opt_rms.r) = Shape(g)
            /\ \A j \in 1..Cols(g) :
                   opt_rms.r[1][j] = FMul(SCALE - opt_rms.gamma, 0)
                                        + FMul(opt_rms.gamma, FMul(g[1][j], g[1][j]))
            /\ (g = << <<SCALE, SCALE>> >> /\ opt_rms.gamma = 90)
                   => opt_rms.r = << <<90, 90>> >>

W_C3_RAfterFirstCall ==
    /\ Len(rms_log) = 1
    /\ rms_log[1].g = << <<SCALE, SCALE>> >>
    /\ opt_rms.gamma = 90
    /\ opt_rms.r = << <<90, 90>> >>

\* ------------------------------------------------------------------ C10
RECURSIVE RAfter(_, _, _)
\* The recurrence r <- gamma * g^2 + (1 - gamma) * r applied to the gradients of
\* log[1..k] in order, starting from r = 0.
RAfter(gamma, log, k) ==
    IF k = 0 THEN Scalar(0)
    ELSE LET prev == RAfter(gamma, log, k - 1)
             g == log[k].g
         IN  [i \in 1..Rows(g) |-> [j \in 1..Cols(g) |->
                 FMul(gamma, FMul(g[i][j], g[i][j]))
                     + FMul(SCALE - gamma, At(prev, i, j))]]

\* C10: on one RMSProp instance, after the calls g1..gk made since it was
\* constructed, r is the recurrence r <- gamma*g^2 + (1-gamma)*r applied to
\* g1..gk in order from r = 0 (so a new instance, and only the start of the
\* recurrence, has r = 0), and call k returned
\* weight - (alpha / (sqrt(r_k) + eps)) * g_k element-wise.
T_C10_RPersists ==
    LET k == Len(rms_log)
        rk == RAfter(opt_rms.gamma, rms_log, k)
    IN  /\ opt_rms.r = rk
        /\ k > 0 =>
             LET c == rms_log[k]
             IN  /\ c.ret = [i \in 1..Rows(c.w) |-> [j \in 1..Cols(c.w) |->
                        c.w[i][j] - FMul(FDiv(opt_rms.alpha,
                                              FSqrt(rk[i][j]) + opt_rms.eps),
                                         c.g[i][j])]]
                 /\ rms_w = c.ret

W_C10_RPersists ==
    /\ Len(rms_log) = MaxCalls
    /\ rms_log[1].g = << <<SCALE, SCALE>> >>
    /\ rms_log[2].g = << <<-50, SCALE>> >>
    /\ opt_rms.r # RAfter(opt_rms.gamma, rms_log, 1)
    /\ opt_rms.r # Scalar(0)
    /\ rms_w # rms_log[1].w

====
